---- MODULE Spec2Model ----
(***************************************************************************)
(* Data-access middleware of alx-backend-python:                           *)
(*   python-decorators-0x01/2-transactional.py   with_db_connection,       *)
(*                                               transactional             *)
(*   python-decorators-0x01/3-retry_on_failure.py retry_on_failure         *)
(*   python-decorators-0x01/4-cache_query.py      cache_query, query_cache *)
(*   python-context-async-perations-0x02/3-concurrent.py fetch_concurrently*)
(*                                                                         *)
(* A decorated function is a stack of wrappers around a wrapped function.  *)
(* Layer 1 is the outermost wrapper, the last layer is the wrapped         *)
(* function itself.  Control is with layer `cur` (0 = the module-level     *)
(* caller); `ret` is the outcome travelling up the stack: a returned value *)
(* or a raised exception.  Every call on the sqlite3 connection (connect,  *)
(* commit, rollback, close) and every run of the wrapped function either   *)
(* succeeds or raises an exception derived from Exception.                 *)
(*                                                                         *)
(* fetch_concurrently is two coroutines run as tasks by asyncio.gather;    *)
(* each await of a task is one step, and the steps of the two tasks        *)
(* interleave freely.                                                      *)
(*                                                                         *)
(* python-context-async-perations-0x02/1-execute.py  ExecuteQuery: one     *)
(* with statement, __enter__ and __exit__ each being one step.             *)
(***************************************************************************)
EXTENDS Integers, Sequences, FiniteSets, TLC

VARIABLES fn, retries, cur, pc, ret, out, attempt, log, funcOuts, conn,
          query_cache, call, prev, ncalls, first, firstArgs, pending,
          mainpc, gpc, gconn, gpend, gfetched, gtask, gorder, gcb, nfinished,
          outer, main, gdb, gconns,
          rpc, rinner, rexec, rout, rwrites,
          epc, equery, econn, ecursor, eresults, elog, ebody, eout

dvars == <<fn, retries, cur, pc, ret, out, attempt, log, funcOuts, conn,
           query_cache, call, prev, ncalls, first, firstArgs, pending>>

gvars == <<mainpc, gpc, gconn, gpend, gfetched, gtask, gorder, gcb, nfinished,
           outer, main, gdb, gconns>>

\* two threads calling fetch_users_with_cache at the same time
rvars == <<rpc, rinner, rexec, rout, rwrites>>

\* one `with ExecuteQuery(...) as executor:` statement
evars == <<epc, equery, econn, ecursor, eresults, elog, ebody, eout>>

vars == <<dvars, gvars, rvars, evars>>

\* ------------------------------------------------------------------ bounds
MaxCalls == 3
MaxRetries == 3
MaxBodyQueries == 2

\* ------------------------------------------------------------- input sets
Queries == {"SELECT * FROM users", "SELECT * FROM users WHERE age > ?"}
ArgSets == {"()", "(40,)"}
FuncVals == {"rowsA", "rowsB"}
FuncExcs == {"E1", "E2"}

\* ----------------------------------------------------------------- values
NoneOut == [kind |-> "none", val |-> "-"]
Value(v) == [kind |-> "value", val |-> v]
Exc(e) == [kind |-> "exc", val |-> e]
PyNone == Value("None")
FuncOutcomes == {Value(v) : v \in FuncVals} \cup {Exc(e) : e \in FuncExcs}

Ev(op, ok) == [op |-> op, ok |-> ok]
Count(s, op) == Cardinality({i \in DOMAIN s : s[i].op = op})
CountOk(s, op) == Cardinality({i \in DOMAIN s : s[i].op = op /\ s[i].ok})

\* ------------------------------------------------- the decorated functions
\* the two decorators applied in the opposite order
update_user_email_Swapped == <<"transactional", "with_db_connection", "func">>

update_user_email == <<"with_db_connection", "transactional", "func">>

\* the retry placed around the connection scope: a connection per attempt
fetch_users_with_retry_Outside ==
  <<"retry_on_failure", "with_db_connection", "func">>

fetch_users_with_retry == <<"with_db_connection", "retry_on_failure", "func">>
fetch_users_with_cache == <<"with_db_connection", "cache_query", "func">>
\* retry_on_failure applied to an arbitrary operation on the connection
retried_operation == <<"with_db_connection", "retry_on_failure", "func">>

\* the retry placed around the transaction: a rollback per failed attempt
retried_transaction_RetryOutside ==
  <<"with_db_connection", "retry_on_failure", "transactional", "func">>

\* the three decorators stacked as @with_db_connection @transactional
\* @retry_on_failure(retries, delay) over an arbitrary operation
retried_transaction ==
  <<"with_db_connection", "transactional", "retry_on_failure", "func">>

Stack(f) ==
  CASE f = "update_user_email" -> update_user_email
    [] f = "fetch_users_with_retry" -> fetch_users_with_retry
    [] f = "fetch_users_with_cache" -> fetch_users_with_cache
    [] f = "retried_operation" -> retried_operation
    [] f = "retried_transaction" -> retried_transaction
    [] OTHER -> <<>>

DecoratedFns == {"update_user_email", "fetch_users_with_retry",
                 "fetch_users_with_cache", "retried_operation",
                 "retried_transaction"}

RetryFns == {"fetch_users_with_retry", "retried_operation"}

\* the functions whose stack holds a retry_on_failure wrapper
Retried == RetryFns \cup {"retried_transaction"}

\* attempts that may leave uncommitted changes on the connection:
\* update_user_email runs one UPDATE: it may change no row (its WHERE clause
\* matches none) or some rows, also when it raises (a statement stopped by a
\* FAIL conflict keeps the rows it has already changed; the schema of
\* users.db is not fixed by the repository); the fetch functions run a
\* SELECT; an arbitrary operation may change rows before it returns or raises
Writes(f, ok) ==
  CASE f \in {"update_user_email", "retried_operation",
                "retried_transaction"} -> BOOLEAN
    [] OTHER -> {FALSE}

prog == Stack(fn)
Layers == 1..Len(prog)
At(kind, p) == cur \in Layers /\ prog[cur] = kind /\ pc[cur] = p

\* a key that also distinguishes the bind parameters
CacheKey_WithArgs(query, args) == <<query, args>>

\* query_cache key of a call: `if query in query_cache` / `query_cache[query]`
CacheKey(query, args) == query

\* a dict keeping only its newest entry
Put_OnlyLatest(f, k, v) == [x \in {k} |-> v]

\* dict assignment d[k] = v
Put(f, k, v) == [x \in DOMAIN f \cup {k} |-> IF x = k THEN v ELSE f[x]]

\* bookkeeping of the first successful execution per query text
Remember(f, k, v) == [x \in DOMAIN f \cup {k} |-> IF x = k THEN v ELSE f[x]]

EmptyCall == [query |-> "-", args |-> "-", warm |-> FALSE]
EmptyPrev == [query |-> "-", args |-> "-", out |-> NoneOut, nexec |-> 0]

\* --------------------------------------------------------- control transfer
\* layer `cur` calls the layer it wraps
CallInner ==
  /\ pc' = [pc EXCEPT ![cur] = "called", ![cur + 1] = "start"]
  /\ cur' = cur + 1
  /\ ret' = NoneOut
  /\ out' = out

\* layer `cur` returns value / raises exception o to the layer above
Return(o) ==
  /\ pc' = [pc EXCEPT ![cur] = "done"]
  /\ cur' = cur - 1
  /\ ret' = o
  /\ out' = [out EXCEPT ![cur] = o]

\* ------------------------------------------------------ fetch_concurrently
\* branch 1 is async_fetch_users, branch 2 is async_fetch_older_users
Branches == {1, 2}
BranchQuery(b) == IF b = 1 THEN "SELECT * FROM users"
                  ELSE "SELECT * FROM users WHERE age > ?"

\* the future returned by asyncio.gather
Pending == [kind |-> "pending", results |-> <<>>, exc |-> "-"]
Result(rs) == [kind |-> "result", results |-> rs, exc |-> "-"]
Failed(e) == [kind |-> "exc", results |-> <<>>, exc |-> e]

\* results listed in the order in which the tasks finished
GatherResults_CompletionOrder(tasks, order) ==
  [i \in 1..Len(order) |-> tasks[order[i]].val]

\* gather's result list: one entry per awaitable, in argument order
GatherResults(tasks, order) == [i \in 1..2 |-> tasks[i].val]

\* ------------------------------------------- concurrent cached callers
Threads == {1, 2}
RaceQuery == "SELECT * FROM users"
RaceKey == CacheKey(RaceQuery, "()")

Init ==
  /\ fn \in DecoratedFns \cup {"fetch_concurrently", "cache_race", "ExecuteQuery"}
  /\ retries \in IF fn \in Retried THEN 0..MaxRetries ELSE {0}
  /\ cur = 0
  /\ pc = [i \in Layers |-> "idle"]
  /\ ret = NoneOut
  /\ out = [i \in Layers |-> NoneOut]
  /\ attempt = 0
  /\ log = <<>>
  /\ funcOuts = <<>>
  /\ conn = "none"
  /\ query_cache = <<>>
  /\ call = EmptyCall
  /\ prev = EmptyPrev
  /\ ncalls = 0
  /\ first = <<>>
  /\ firstArgs = <<>>
  /\ pending = {}
  /\ mainpc = "start"
  /\ gpc = [b \in Branches |-> "new"]
  /\ gconn = [b \in Branches |-> "none"]
  /\ gpend = [b \in Branches |-> NoneOut]
  /\ gfetched = [b \in Branches |-> "-"]
  /\ gtask = [b \in Branches |-> NoneOut]
  /\ gorder = <<>>
  /\ gcb = [b \in Branches |-> FALSE]
  /\ nfinished = 0
  /\ outer = Pending
  /\ main = [all_users |-> "-", older_users |-> "-", exc |-> "-"]
  /\ gdb = [b \in Branches |-> 0]
  /\ gconns = <<>>
  /\ rpc = [t \in Threads |-> "idle"]
  /\ rinner = [t \in Threads |-> NoneOut]
  /\ rexec = [t \in Threads |-> NoneOut]
  /\ rout = [t \in Threads |-> NoneOut]
  /\ rwrites = <<>>
  /\ epc = "new"
  /\ equery = FALSE
  /\ econn = "none"
  /\ ecursor = "none"
  /\ eresults = "None"
  /\ elog = <<>>
  /\ ebody = NoneOut
  /\ eout = NoneOut

\* module-level call of the decorated function
Invoke ==
  /\ fn \in DecoratedFns
  /\ cur = 0
  /\ ncalls < MaxCalls
  /\ IF fn = "fetch_users_with_cache"
       THEN \E q \in Queries, a \in ArgSets :
              call' = [query |-> q, args |-> a, warm |-> q \in DOMAIN first]
       ELSE call' = EmptyCall
  /\ prev' = IF ncalls = 0 \/ fn # "fetch_users_with_cache" THEN EmptyPrev
             ELSE [query |-> call.query, args |-> call.args, out |-> ret,
                   nexec |-> Count(log, "func")]
  /\ ncalls' = ncalls + 1
  /\ cur' = 1
  /\ pc' = [i \in Layers |-> IF i = 1 THEN "start" ELSE "idle"]
  /\ ret' = NoneOut
  /\ out' = [i \in Layers |-> NoneOut]
  /\ attempt' = 0
  /\ log' = <<>>
  /\ funcOuts' = <<>>
  /\ conn' = "none"
  /\ pending' = {}
  /\ UNCHANGED <<gvars, rvars, evars>>
  /\ UNCHANGED <<fn, retries, query_cache, first, firstArgs>>

\* ------------------------------------------------------ with_db_connection
\* connect placed inside the try block: the finally clause runs on failure
WdcConnect_InsideTry ==
  /\ At("with_db_connection", "start")
  /\ \E ok \in BOOLEAN :
       /\ log' = Append(log, Ev("connect", ok))
       /\ IF ok THEN conn' = "open" /\ CallInner
                ELSE /\ conn' = conn
                     /\ pc' = [pc EXCEPT ![cur] = "called"]
                     /\ ret' = Exc("ConnectError")
                     /\ UNCHANGED <<cur, out>>
  /\ UNCHANGED <<gvars, rvars, evars>>
  /\ UNCHANGED pending
  /\ UNCHANGED <<fn, retries, attempt, funcOuts, query_cache, call, prev,
                 ncalls, first, firstArgs>>

\* conn = sqlite3.connect('users.db'); raises before the try block on failure
WdcConnect ==
  /\ At("with_db_connection", "start")
  /\ \E ok \in BOOLEAN :
       /\ log' = Append(log, Ev("connect", ok))
       /\ IF ok THEN conn' = "open" /\ CallInner
                ELSE conn' = conn /\ Return(Exc("ConnectError"))
  /\ UNCHANGED <<gvars, rvars, evars>>
  /\ UNCHANGED pending
  /\ UNCHANGED <<fn, retries, attempt, funcOuts, query_cache, call, prev,
                 ncalls, first, firstArgs>>

\* close only after a normal return (no finally block)
WdcFinally_NoFinally ==
  /\ At("with_db_connection", "called")
  /\ IF ret.kind = "value"
       THEN \E ok \in BOOLEAN :
              /\ log' = Append(log, Ev("close", ok))
              /\ conn' = IF ok THEN "closed" ELSE conn
              /\ pending' \in IF ok THEN {{}, pending} ELSE {pending}
              /\ Return(IF ok THEN ret ELSE Exc("CloseError"))
       ELSE /\ UNCHANGED <<log, conn, pending>>
            /\ Return(ret)
  /\ UNCHANGED <<gvars, rvars, evars>>
  /\ UNCHANGED <<fn, retries, attempt, funcOuts, query_cache, call, prev,
                 ncalls, first, firstArgs>>

\* finally: conn.close(); an exception raised by close replaces the outcome.
\* A close that returns discards the uncommitted changes, unless a cursor of
\* the connection is still alive (held by the traceback of the exception
\* that is propagating): then sqlite keeps the changes held after the close.
WdcFinally ==
  /\ At("with_db_connection", "called")
  /\ \E ok \in BOOLEAN :
       /\ log' = Append(log, Ev("close", ok))
       /\ conn' = IF ok THEN "closed" ELSE conn
       /\ pending' \in IF ok THEN {{}, pending} ELSE {pending}
       /\ Return(IF ok THEN ret ELSE Exc("CloseError"))
  /\ UNCHANGED <<gvars, rvars, evars>>
  /\ UNCHANGED <<fn, retries, attempt, funcOuts, query_cache, call, prev,
                 ncalls, first, firstArgs>>

\* ------------------------------------------------------------ transactional
\* result = func(conn, *args, **kwargs)
TxCall ==
  /\ At("transactional", "start")
  /\ CallInner
  /\ UNCHANGED <<gvars, rvars, evars>>
  /\ UNCHANGED pending
  /\ UNCHANGED <<fn, retries, attempt, log, funcOuts, conn, query_cache, call,
                 prev, ncalls, first, firstArgs>>

\* commit outside the try block: its exception is not followed by a rollback
TxCommit_OutsideTry ==
  /\ At("transactional", "called")
  /\ ret.kind = "value"
  /\ \E ok \in BOOLEAN :
       /\ log' = Append(log, Ev("commit", ok))
       /\ pending' = IF ok THEN {} ELSE pending
       /\ Return(IF ok THEN ret ELSE Exc("CommitError"))
  /\ UNCHANGED <<gvars, rvars, evars>>
  /\ UNCHANGED <<fn, retries, attempt, funcOuts, conn, query_cache, call,
                 prev, ncalls, first, firstArgs>>

\* conn.commit(); return result.  commit is inside the try block, so an
\* exception it raises is caught by the same `except Exception`.
TxCommit ==
  /\ At("transactional", "called")
  /\ ret.kind = "value"
  /\ \E ok \in BOOLEAN :
       /\ log' = Append(log, Ev("commit", ok))
       /\ pending' = IF ok THEN {} ELSE pending
       /\ IF ok THEN Return(ret)
                ELSE /\ ret' = Exc("CommitError")
                     /\ UNCHANGED <<cur, pc, out>>
  /\ UNCHANGED <<gvars, rvars, evars>>
  /\ UNCHANGED <<fn, retries, attempt, funcOuts, conn, query_cache, call,
                 prev, ncalls, first, firstArgs>>

\* except Exception: conn.rollback(); print(...); raise
TxRollback ==
  /\ At("transactional", "called")
  /\ ret.kind = "exc"
  /\ \E ok \in BOOLEAN :
       /\ log' = Append(log, Ev("rollback", ok))
       /\ pending' = IF ok THEN {} ELSE pending
       /\ Return(IF ok THEN ret ELSE Exc("RollbackError"))
  /\ UNCHANGED <<gvars, rvars, evars>>
  /\ UNCHANGED <<fn, retries, attempt, funcOuts, conn, query_cache, call,
                 prev, ncalls, first, firstArgs>>

\* --------------------------------------------------------- retry_on_failure
\* for attempt in range(retries): try: return func(*args, **kwargs)
\* when the range is exhausted the wrapper falls off its end and returns None
RetryAttempt ==
  /\ At("retry_on_failure", "start") \/ At("retry_on_failure", "loop")
  /\ IF attempt < retries
       THEN CallInner
       ELSE Return(PyNone)
  /\ UNCHANGED <<gvars, rvars, evars>>
  /\ UNCHANGED pending
  /\ UNCHANGED <<fn, retries, attempt, log, funcOuts, conn, query_cache, call,
                 prev, ncalls, first, firstArgs>>

\* the result is not returned from inside the loop
RetryReturn_NoShortCircuit ==
  /\ At("retry_on_failure", "called")
  /\ ret.kind = "value"
  /\ attempt' = attempt + 1
  /\ pc' = [pc EXCEPT ![cur] = "loop"]
  /\ ret' = NoneOut
  /\ UNCHANGED <<cur, out>>
  /\ UNCHANGED <<gvars, rvars, evars>>
  /\ UNCHANGED pending
  /\ UNCHANGED <<fn, retries, log, funcOuts, conn, query_cache, call,
                 prev, ncalls, first, firstArgs>>

\* return func(...) when the attempt succeeded
RetryReturn ==
  /\ At("retry_on_failure", "called")
  /\ ret.kind = "value"
  /\ Return(ret)
  /\ UNCHANGED <<gvars, rvars, evars>>
  /\ UNCHANGED pending
  /\ UNCHANGED <<fn, retries, attempt, log, funcOuts, conn, query_cache, call,
                 prev, ncalls, first, firstArgs>>

\* a rollback before the next attempt
RetryExcept_Rollback ==
  /\ At("retry_on_failure", "called")
  /\ ret.kind = "exc"
  /\ IF attempt < retries - 1
       THEN /\ log' = Append(log, Ev("sleep", TRUE))
            /\ pending' = {}
            /\ attempt' = attempt + 1
            /\ pc' = [pc EXCEPT ![cur] = "loop"]
            /\ ret' = NoneOut
            /\ UNCHANGED <<cur, out>>
       ELSE /\ Return(ret)
            /\ UNCHANGED <<log, attempt, pending>>
  /\ UNCHANGED <<gvars, rvars, evars>>
  /\ UNCHANGED <<fn, retries, funcOuts, conn, query_cache, call, prev, ncalls,
                 first, firstArgs>>

\* a sleep after every failing attempt, the last one included
RetryExcept_SleepAlways ==
  /\ At("retry_on_failure", "called")
  /\ ret.kind = "exc"
  /\ log' = Append(log, Ev("sleep", TRUE))
  /\ IF attempt < retries - 1
       THEN /\ attempt' = attempt + 1
            /\ pc' = [pc EXCEPT ![cur] = "loop"]
            /\ ret' = NoneOut
            /\ UNCHANGED <<cur, out>>
       ELSE /\ Return(ret)
            /\ UNCHANGED attempt
  /\ UNCHANGED <<gvars, rvars, evars>>
  /\ UNCHANGED pending
  /\ UNCHANGED <<fn, retries, funcOuts, conn, query_cache, call, prev, ncalls,
                 first, firstArgs>>

\* off by one in the test for remaining retries
RetryExcept_OffByOne ==
  /\ At("retry_on_failure", "called")
  /\ ret.kind = "exc"
  /\ IF attempt < retries - 2
       THEN /\ log' = Append(log, Ev("sleep", TRUE))
            /\ attempt' = attempt + 1
            /\ pc' = [pc EXCEPT ![cur] = "loop"]
            /\ ret' = NoneOut
            /\ UNCHANGED <<cur, out>>
       ELSE /\ Return(ret)
            /\ UNCHANGED <<log, attempt>>
  /\ UNCHANGED <<gvars, rvars, evars>>
  /\ UNCHANGED pending
  /\ UNCHANGED <<fn, retries, funcOuts, conn, query_cache, call, prev, ncalls,
                 first, firstArgs>>

\* except Exception: sleep and go round again if attempt < retries - 1,
\* otherwise re-raise the exception of this attempt
RetryExcept ==
  /\ At("retry_on_failure", "called")
  /\ ret.kind = "exc"
  /\ IF attempt < retries - 1
       THEN /\ log' = Append(log, Ev("sleep", TRUE))
            /\ attempt' = attempt + 1
            /\ pc' = [pc EXCEPT ![cur] = "loop"]
            /\ ret' = NoneOut
            /\ UNCHANGED <<cur, out>>
       ELSE /\ Return(ret)
            /\ UNCHANGED <<log, attempt>>
  /\ UNCHANGED <<gvars, rvars, evars>>
  /\ UNCHANGED pending
  /\ UNCHANGED <<fn, retries, funcOuts, conn, query_cache, call, prev, ncalls,
                 first, firstArgs>>

\* -------------------------------------------------------------- cache_query
\* a hit that still runs the query
CacheLookup_Refresh ==
  /\ At("cache_query", "start")
  /\ LET key == CacheKey(call.query, call.args) IN
       /\ log' = IF key \in DOMAIN query_cache
                   THEN Append(log, Ev("hit", TRUE)) ELSE log
       /\ CallInner
  /\ UNCHANGED <<gvars, rvars, evars>>
  /\ UNCHANGED pending
  /\ UNCHANGED <<fn, retries, attempt, funcOuts, conn, query_cache, call,
                 prev, ncalls, first, firstArgs>>

\* a hit that takes the entry out of the cache (query_cache.pop(query))
CacheLookup_Pop ==
  /\ At("cache_query", "start")
  /\ LET key == CacheKey(call.query, call.args) IN
       IF key \in DOMAIN query_cache
         THEN /\ log' = Append(log, Ev("hit", TRUE))
              /\ query_cache' = [x \in DOMAIN query_cache \ {key} |->
                                   query_cache[x]]
              /\ Return(Value(query_cache[key]))
         ELSE /\ log' = log
              /\ query_cache' = query_cache
              /\ CallInner
  /\ UNCHANGED <<gvars, rvars, evars>>
  /\ UNCHANGED pending
  /\ UNCHANGED <<fn, retries, attempt, funcOuts, conn, call,
                 prev, ncalls, first, firstArgs>>

\* if query in query_cache: print("Using cached result ..."); return it
\* otherwise result = func(conn, query, *args, **kwargs)
CacheLookup ==
  /\ At("cache_query", "start")
  /\ LET key == CacheKey(call.query, call.args) IN
       IF key \in DOMAIN query_cache
         THEN /\ log' = Append(log, Ev("hit", TRUE))
              /\ Return(Value(query_cache[key]))
         ELSE /\ log' = log
              /\ CallInner
  /\ UNCHANGED <<gvars, rvars, evars>>
  /\ UNCHANGED pending
  /\ UNCHANGED <<fn, retries, attempt, funcOuts, conn, query_cache, call,
                 prev, ncalls, first, firstArgs>>

\* the result is returned without being stored
CacheStore_NoStore ==
  /\ At("cache_query", "called")
  /\ ret.kind = "value"
  /\ Return(ret)
  /\ UNCHANGED <<gvars, rvars, evars>>
  /\ UNCHANGED pending
  /\ UNCHANGED <<fn, retries, attempt, log, funcOuts, conn, query_cache, call,
                 prev, ncalls, first, firstArgs>>

\* query_cache[query] = result; return result
CacheStore ==
  /\ At("cache_query", "called")
  /\ ret.kind = "value"
  /\ query_cache' = Put(query_cache, CacheKey(call.query, call.args), ret.val)
  /\ Return(ret)
  /\ UNCHANGED <<gvars, rvars, evars>>
  /\ UNCHANGED pending
  /\ UNCHANGED <<fn, retries, attempt, log, funcOuts, conn, call, prev,
                 ncalls, first, firstArgs>>

\* the store statement runs in a finally clause, with no result to store
CacheRaise_StoreNone ==
  /\ At("cache_query", "called")
  /\ ret.kind = "exc"
  /\ query_cache' = Put(query_cache, CacheKey(call.query, call.args), "None")
  /\ Return(ret)
  /\ UNCHANGED <<gvars, rvars, evars>>
  /\ UNCHANGED pending
  /\ UNCHANGED <<fn, retries, attempt, log, funcOuts, conn, call,
                 prev, ncalls, first, firstArgs>>

\* an exception of func leaves the wrapper before the store statement
CacheRaise ==
  /\ At("cache_query", "called")
  /\ ret.kind = "exc"
  /\ Return(ret)
  /\ UNCHANGED <<gvars, rvars, evars>>
  /\ UNCHANGED pending
  /\ UNCHANGED <<fn, retries, attempt, log, funcOuts, conn, query_cache, call,
                 prev, ncalls, first, firstArgs>>

\* ------------------------------------------------------ the wrapped function
\* cursor = conn.cursor(); cursor.execute(...); [return cursor.fetchall()]
\* `first` / `firstArgs` remember the first successful execution per text;
\* `pending` holds the attempts whose changes are uncommitted on the
\* connection (committed by commit, discarded by rollback, discarded or
\* kept held by close).
FuncRun ==
  /\ At("func", "start")
  /\ \E o \in FuncOutcomes :
       /\ log' = Append(log, Ev("func", o.kind = "value"))
       /\ funcOuts' = Append(funcOuts, o)
       /\ Return(o)
       /\ IF o.kind = "value" /\ call.query \notin DOMAIN first
            THEN /\ first' = Remember(first, call.query, o.val)
                 /\ firstArgs' = Remember(firstArgs, call.query, call.args)
            ELSE UNCHANGED <<first, firstArgs>>
       /\ \E w \in Writes(fn, o.kind = "value") :
            pending' = IF w THEN pending \cup {Len(funcOuts) + 1} ELSE pending
  /\ UNCHANGED <<gvars, rvars, evars>>
  /\ UNCHANGED <<fn, retries, attempt, conn, query_cache, call, prev, ncalls>>

\* ------------------------------------------- fetch_concurrently: the tasks
\* return await asyncio.gather(async_fetch_users(), async_fetch_older_users())
\* gather wraps both coroutines in tasks; the caller waits for `outer`
FetchConcurrently ==
  /\ fn = "fetch_concurrently"
  /\ mainpc = "start"
  /\ mainpc' = "awaiting"
  /\ gpc' = [b \in Branches |-> "connect"]
  /\ UNCHANGED <<gconn, gpend, gfetched, gtask, gorder, gcb, nfinished, outer,
                 main, gdb, gconns>>
  /\ UNCHANGED <<dvars, rvars, evars>>

\* the connections opened so far, in order of opening: who opened each, which
\* branches ran something on it, how often its close was called; gdb[b] is
\* the index of the connection bound to `db` in branch b (0: none)
NewConn(b) == [opener |-> b, users |-> {}, closes |-> 0]
Use(cs, b, i) == [cs EXCEPT ![i].users = @ \cup {b}]
Close(cs, i) == [cs EXCEPT ![i].closes = @ + 1]

\* the task of branch b finishes with outcome o
Finish(b, o) ==
  /\ gtask' = [gtask EXCEPT ![b] = o]
  /\ gpc' = [gpc EXCEPT ![b] = "finished"]
  /\ gorder' = Append(gorder, b)

\* one connection kept for the whole module: a branch that finds a
\* connection open binds it instead of opening its own
AsyncConnect_Shared(b) ==
  /\ gpc[b] = "connect"
  /\ \E ok \in BOOLEAN :
       IF ok THEN /\ gconn' = [gconn EXCEPT ![b] = "open"]
                  /\ IF \E i \in DOMAIN gconns : gconns[i].closes = 0
                       THEN /\ gdb' = [gdb EXCEPT ![b] =
                                 CHOOSE i \in DOMAIN gconns :
                                    gconns[i].closes = 0]
                            /\ UNCHANGED gconns
                       ELSE /\ gconns' = Append(gconns, NewConn(b))
                            /\ gdb' = [gdb EXCEPT ![b] = Len(gconns) + 1]
                  /\ gpc' = [gpc EXCEPT ![b] = "execute"]
                  /\ UNCHANGED <<gtask, gorder>>
             ELSE /\ Finish(b, Exc("ConnectError"))
                  /\ UNCHANGED <<gconn, gdb, gconns>>
  /\ UNCHANGED <<mainpc, gpend, gfetched, gcb, nfinished, outer, main>>
  /\ UNCHANGED <<dvars, rvars, evars>>

\* async with aiosqlite.connect('users.db') as db:   (entry)
AsyncConnect(b) ==
  /\ gpc[b] = "connect"
  /\ \E ok \in BOOLEAN :
       IF ok THEN /\ gconn' = [gconn EXCEPT ![b] = "open"]
                  /\ gconns' = Append(gconns, NewConn(b))
                  /\ gdb' = [gdb EXCEPT ![b] = Len(gconns) + 1]
                  /\ gpc' = [gpc EXCEPT ![b] = "execute"]
                  /\ UNCHANGED <<gtask, gorder>>
             ELSE /\ Finish(b, Exc("ConnectError"))
                  /\ UNCHANGED <<gconn, gdb, gconns>>
  /\ UNCHANGED <<mainpc, gpend, gfetched, gcb, nfinished, outer, main>>
  /\ UNCHANGED <<dvars, rvars, evars>>

\* async with db.execute(BranchQuery(b)) as cursor:   (entry)
AsyncExecute(b) ==
  /\ gpc[b] = "execute"
  /\ \E ok \in BOOLEAN :
       IF ok THEN /\ gpc' = [gpc EXCEPT ![b] = "fetchall"]
                  /\ UNCHANGED gpend
             ELSE /\ gpc' = [gpc EXCEPT ![b] = "db_exit"]
                  /\ gpend' = [gpend EXCEPT ![b] = Exc("ExecuteError")]
  /\ gconns' = Use(gconns, b, gdb[b])
  /\ UNCHANGED <<mainpc, gconn, gfetched, gtask, gorder, gcb, nfinished, outer,
                 main, gdb>>
  /\ UNCHANGED <<dvars, rvars, evars>>

\* return await cursor.fetchall()
AsyncFetchall(b) ==
  /\ gpc[b] = "fetchall"
  /\ \/ \E rows \in FuncVals :
          /\ gfetched' = [gfetched EXCEPT ![b] = rows]
          /\ gpend' = [gpend EXCEPT ![b] = Value(rows)]
     \/ /\ gpend' = [gpend EXCEPT ![b] = Exc("FetchError")]
        /\ UNCHANGED gfetched
  /\ gpc' = [gpc EXCEPT ![b] = "cursor_exit"]
  /\ gconns' = Use(gconns, b, gdb[b])
  /\ UNCHANGED <<mainpc, gconn, gtask, gorder, gcb, nfinished, outer, main,
                 gdb>>
  /\ UNCHANGED <<dvars, rvars, evars>>

\* leaving `async with db.execute(...) as cursor`: the cursor is closed
AsyncCursorExit(b) ==
  /\ gpc[b] = "cursor_exit"
  /\ \E ok \in BOOLEAN :
       gpend' = IF ok THEN gpend
                ELSE [gpend EXCEPT ![b] = Exc("CursorCloseError")]
  /\ gpc' = [gpc EXCEPT ![b] = "db_exit"]
  /\ gconns' = Use(gconns, b, gdb[b])
  /\ UNCHANGED <<mainpc, gconn, gfetched, gtask, gorder, gcb, nfinished, outer,
                 main, gdb>>
  /\ UNCHANGED <<dvars, rvars, evars>>

\* leaving `async with aiosqlite.connect(...) as db`: the connection is
\* closed and the coroutine ends with its pending value or exception
AsyncDbExit(b) ==
  /\ gpc[b] = "db_exit"
  /\ \E ok \in BOOLEAN :
       /\ gconn' = [gconn EXCEPT ![b] = IF ok THEN "closed" ELSE @]
       /\ Finish(b, IF ok THEN gpend[b] ELSE Exc("CloseError"))
  /\ gconns' = Close(gconns, gdb[b])
  /\ UNCHANGED <<mainpc, gpend, gfetched, gcb, nfinished, outer, main, gdb>>
  /\ UNCHANGED <<dvars, rvars, evars>>

\* the result list is set as soon as one task has finished
GatherDoneCallback_FirstDone(b) ==
  /\ gpc[b] \in {"finished", "cancelled"}
  /\ ~gcb[b]
  /\ gcb' = [gcb EXCEPT ![b] = TRUE]
  /\ nfinished' = nfinished + 1
  /\ outer' = IF outer.kind # "pending" THEN outer
              ELSE IF gtask[b].kind = "exc" THEN Failed(gtask[b].val)
              ELSE Result(GatherResults(gtask, gorder))
  /\ UNCHANGED <<mainpc, gpc, gconn, gpend, gfetched, gtask, gorder, main,
                 gdb, gconns>>
  /\ UNCHANGED <<dvars, rvars, evars>>

\* the first failure cancels the tasks that are still running
GatherDoneCallback_CancelSiblings(b) ==
  /\ gpc[b] \in {"finished", "cancelled"}
  /\ ~gcb[b]
  /\ gcb' = [gcb EXCEPT ![b] = TRUE]
  /\ nfinished' = nfinished + 1
  /\ outer' = IF outer.kind # "pending" THEN outer
              ELSE IF gtask[b].kind = "exc" THEN Failed(gtask[b].val)
              ELSE IF nfinished' = 2 THEN Result(GatherResults(gtask, gorder))
              ELSE outer
  /\ gpc' = IF outer.kind = "pending" /\ gtask[b].kind = "exc"
              THEN [c \in Branches |->
                      IF gpc[c] = "finished" THEN gpc[c] ELSE "cancelled"]
              ELSE gpc
  /\ UNCHANGED <<mainpc, gconn, gpend, gfetched, gtask, gorder, main, gdb,
                 gconns>>
  /\ UNCHANGED <<dvars, rvars, evars>>

\* gather's done callback of a task that is done, by itself or cancelled by
\* the runner (return_exceptions is False): the first exception is set on
\* `outer` at once; when the last task has finished without exception the
\* result list is set; once `outer` is done the callback only counts
GatherDoneCallback(b) ==
  /\ gpc[b] \in {"finished", "cancelled"}
  /\ ~gcb[b]
  /\ gcb' = [gcb EXCEPT ![b] = TRUE]
  /\ nfinished' = nfinished + 1
  /\ outer' = IF outer.kind # "pending" THEN outer
              ELSE IF gtask[b].kind = "exc" THEN Failed(gtask[b].val)
              ELSE IF nfinished' = 2 THEN Result(GatherResults(gtask, gorder))
              ELSE outer
  /\ UNCHANGED <<mainpc, gpc, gconn, gpend, gfetched, gtask, gorder, main,
                 gdb, gconns>>
  /\ UNCHANGED <<dvars, rvars, evars>>

\* main: all_users, older_users = await fetch_concurrently()
MainResume ==
  /\ mainpc = "awaiting"
  /\ outer.kind # "pending"
  /\ IF outer.kind = "result"
       THEN /\ main' = [all_users |-> outer.results[1],
                        older_users |-> outer.results[2], exc |-> "-"]
            /\ mainpc' = "done"
       ELSE /\ main' = [main EXCEPT !.exc = outer.exc]
            /\ mainpc' = "raised"
  /\ UNCHANGED <<gpc, gconn, gpend, gfetched, gtask, gorder, gcb, nfinished,
                 outer, gdb, gconns>>
  /\ UNCHANGED <<dvars, rvars, evars>>

\* asyncio.run(main()): once main has ended with the exception, the runner
\* cancels every task that has not finished.  CancelledError is raised at
\* the await the task is suspended in:
\*   waiting for the connection: the task ends without entering the async
\*     with block, so no close will be called; the request to open the
\*     connection is already with aiosqlite, which may drop it or still open
\*     the connection, bound to no `db` (either outcome is possible);
\*   waiting for db.execute: the connection's async with is left next;
\*   waiting for fetchall: the cursor's async with is left next;
\*   in the cursor's __aexit__: that close is abandoned and the connection's
\*     async with is left next;
\*   in the connection's __aexit__: its close has been called and is
\*     abandoned, the task ends without having seen the connection closed.
RunnerCancel(b) ==
  /\ mainpc = "raised"
  /\ gpc[b] \in {"connect", "execute", "fetchall", "cursor_exit", "db_exit"}
  /\ gpc' = [gpc EXCEPT ![b] =
               CASE gpc[b] \in {"connect", "db_exit"} -> "cancelled"
                 [] gpc[b] = "fetchall" -> "cancel_cursor_exit"
                 [] OTHER -> "cancel_db_exit"]
  /\ gtask' = IF gpc[b] \in {"connect", "db_exit"}
                THEN [gtask EXCEPT ![b] = Exc("CancelledError")]
                ELSE gtask
  /\ gpend' = IF gpc[b] = "connect" THEN gpend
              ELSE [gpend EXCEPT ![b] = Exc("CancelledError")]
  /\ CASE gpc[b] = "connect" ->
            \E opened \in BOOLEAN :
               IF opened THEN /\ gconns' = Append(gconns, NewConn(b))
                              /\ gconn' = [gconn EXCEPT ![b] = "open"]
                         ELSE UNCHANGED <<gconn, gconns>>
       [] gpc[b] = "db_exit" ->
            /\ gconns' = Close(gconns, gdb[b])
            /\ UNCHANGED gconn
       [] OTHER -> UNCHANGED <<gconn, gconns>>
  /\ UNCHANGED <<mainpc, gfetched, gorder, gcb, nfinished, outer, main, gdb>>
  /\ UNCHANGED <<dvars, rvars, evars>>

\* CancelledError leaves `async with db.execute(...) as cursor`: the cursor
\* is closed; an exception raised by that close replaces CancelledError
CancelCursorExit(b) ==
  /\ gpc[b] = "cancel_cursor_exit"
  /\ \E ok \in BOOLEAN :
       gpend' = IF ok THEN gpend
                ELSE [gpend EXCEPT ![b] = Exc("CursorCloseError")]
  /\ gpc' = [gpc EXCEPT ![b] = "cancel_db_exit"]
  /\ gconns' = Use(gconns, b, gdb[b])
  /\ UNCHANGED <<mainpc, gconn, gfetched, gtask, gorder, gcb, nfinished, outer,
                 main, gdb>>
  /\ UNCHANGED <<dvars, rvars, evars>>

\* the exception leaves `async with aiosqlite.connect(...) as db`: the
\* connection is closed and the task of the cancelled coroutine ends with
\* the exception that is unwinding, or with the one raised by the close
CancelDbExit(b) ==
  /\ gpc[b] = "cancel_db_exit"
  /\ \E ok \in BOOLEAN :
       /\ gconn' = [gconn EXCEPT ![b] = IF ok THEN "closed" ELSE @]
       /\ gtask' = [gtask EXCEPT ![b] =
                      IF ok THEN gpend[b] ELSE Exc("CloseError")]
  /\ gpc' = [gpc EXCEPT ![b] = "cancelled"]
  /\ gconns' = Close(gconns, gdb[b])
  /\ UNCHANGED <<mainpc, gpend, gfetched, gorder, gcb, nfinished, outer, main,
                 gdb>>
  /\ UNCHANGED <<dvars, rvars, evars>>

\* the next step of the coroutine of branch b
AsyncStep(b) ==
  \/ AsyncConnect(b)
  \/ AsyncExecute(b)
  \/ AsyncFetchall(b)
  \/ AsyncCursorExit(b)
  \/ AsyncDbExit(b)
  \/ CancelCursorExit(b)
  \/ CancelDbExit(b)

\* ------------------------- fetch_users_with_cache called by two threads
\* both threads call fetch_users_with_cache(query=RaceQuery); query_cache is
\* the one module-level dict, each thread has its own connection
RaceSpawn ==
  /\ fn = "cache_race"
  /\ \A t \in Threads : rpc[t] = "idle"
  /\ rpc' = [t \in Threads |-> "connect"]
  /\ UNCHANGED <<rinner, rexec, rout, rwrites>>
  /\ UNCHANGED <<dvars, gvars, evars>>

\* with_db_connection.wrapper: conn = sqlite3.connect('users.db')
RaceConnect(t) ==
  /\ rpc[t] = "connect"
  /\ \E ok \in BOOLEAN :
       IF ok THEN /\ rpc' = [rpc EXCEPT ![t] = "lookup"]
                  /\ UNCHANGED rout
             ELSE /\ rpc' = [rpc EXCEPT ![t] = "done"]
                  /\ rout' = [rout EXCEPT ![t] = Exc("ConnectError")]
  /\ UNCHANGED <<rinner, rexec, rwrites>>
  /\ UNCHANGED <<dvars, gvars, evars>>

\* the miss reserves the key with a placeholder before the query runs
RaceLookup_Reserve(t) ==
  /\ rpc[t] = "lookup"
  /\ IF RaceKey \in DOMAIN query_cache
       THEN /\ rinner' = [rinner EXCEPT ![t] = Value(query_cache[RaceKey])]
            /\ rpc' = [rpc EXCEPT ![t] = "close"]
            /\ UNCHANGED query_cache
       ELSE /\ rpc' = [rpc EXCEPT ![t] = "execute"]
            /\ query_cache' = Put(query_cache, RaceKey, "None")
            /\ UNCHANGED rinner
  /\ UNCHANGED <<rexec, rout, rwrites>>
  /\ UNCHANGED <<fn, retries, cur, pc, ret, out, attempt, log, funcOuts, conn,
                 call, prev, ncalls, first, firstArgs, pending>>
  /\ UNCHANGED <<gvars, evars>>

\* cache_query.wrapper: if query in query_cache: return query_cache[query]
RaceLookup(t) ==
  /\ rpc[t] = "lookup"
  /\ IF RaceKey \in DOMAIN query_cache
       THEN /\ rinner' = [rinner EXCEPT ![t] = Value(query_cache[RaceKey])]
            /\ rpc' = [rpc EXCEPT ![t] = "close"]
       ELSE /\ rpc' = [rpc EXCEPT ![t] = "execute"]
            /\ UNCHANGED rinner
  /\ UNCHANGED <<rexec, rout, rwrites>>
  /\ UNCHANGED <<dvars, gvars, evars>>

\* result = func(conn, query): cursor.execute(query); cursor.fetchall()
RaceExecute(t) ==
  /\ rpc[t] = "execute"
  /\ \E o \in FuncOutcomes :
       /\ rexec' = [rexec EXCEPT ![t] = o]
       /\ IF o.kind = "value"
            THEN /\ rpc' = [rpc EXCEPT ![t] = "store"]
                 /\ UNCHANGED rinner
            ELSE /\ rpc' = [rpc EXCEPT ![t] = "close"]
                 /\ rinner' = [rinner EXCEPT ![t] = o]
  /\ UNCHANGED <<rout, rwrites>>
  /\ UNCHANGED <<dvars, gvars, evars>>

\* query_cache[query] = result; return result
RaceStore(t) ==
  /\ rpc[t] = "store"
  /\ query_cache' = Put(query_cache, RaceKey, rexec[t].val)
  /\ rwrites' = Append(rwrites, [t |-> t, val |-> rexec[t].val])
  /\ rinner' = [rinner EXCEPT ![t] = rexec[t]]
  /\ rpc' = [rpc EXCEPT ![t] = "close"]
  /\ UNCHANGED <<rexec, rout>>
  /\ UNCHANGED <<fn, retries, cur, pc, ret, out, attempt, log, funcOuts, conn,
                 call, prev, ncalls, first, firstArgs, pending>>
  /\ UNCHANGED <<gvars, evars>>

\* with_db_connection.wrapper: finally: conn.close()
RaceClose(t) ==
  /\ rpc[t] = "close"
  /\ \E ok \in BOOLEAN :
       rout' = [rout EXCEPT ![t] = IF ok THEN rinner[t] ELSE Exc("CloseError")]
  /\ rpc' = [rpc EXCEPT ![t] = "done"]
  /\ UNCHANGED <<rinner, rexec, rwrites>>
  /\ UNCHANGED <<dvars, gvars, evars>>

\* ------------------------------------------------------------ ExecuteQuery
\* the calls __enter__ makes, in order, until one raises
EnterLog(connOk, curOk, withQuery, execOk) ==
  <<Ev("connect", connOk)>>
  \o (IF connOk THEN <<Ev("cursor", curOk)>> ELSE <<>>)
  \o (IF connOk /\ curOk /\ withQuery THEN <<Ev("execute", execOk)>> ELSE <<>>)

\* with ExecuteQuery(query=..., params=...) as executor:  (__enter__)
\* an exception raised by __enter__ leaves the with statement at once;
\* __exit__ is not called
EqEnter ==
  /\ fn = "ExecuteQuery"
  /\ epc = "new"
  /\ \E withQuery, connOk, curOk, execOk \in BOOLEAN, rows \in FuncVals :
       LET l == EnterLog(connOk, curOk, withQuery, execOk)
           entered == \A i \in DOMAIN l : l[i].ok
       IN /\ equery' = withQuery
          /\ elog' = l
          /\ econn' = IF connOk THEN "open" ELSE "none"
          /\ ecursor' = IF connOk /\ curOk THEN "open" ELSE "none"
          /\ eresults' = IF entered /\ withQuery THEN rows ELSE "None"
          /\ epc' = IF entered THEN "body" ELSE "left"
          /\ eout' = IF entered THEN NoneOut
                     ELSE IF ~connOk THEN Exc("ConnectError")
                     ELSE IF ~curOk THEN Exc("CursorError")
                     ELSE Exc("ExecuteError")
  /\ UNCHANGED ebody
  /\ UNCHANGED <<dvars, gvars, rvars>>

\* executor.execute(query) in the body: raises RuntimeError without a
\* cursor, otherwise runs the query and keeps its rows
EqExecute ==
  /\ epc = "body"
  /\ Count(elog, "execute") < MaxBodyQueries
  /\ \E ok \in BOOLEAN, rows \in FuncVals :
       IF ecursor = "none"
         THEN /\ ebody' = Exc("RuntimeError")
              /\ epc' = "exit"
              /\ UNCHANGED <<elog, eresults>>
         ELSE /\ elog' = Append(elog, Ev("execute", ok))
              /\ IF ok THEN /\ eresults' = rows
                            /\ UNCHANGED <<ebody, epc>>
                       ELSE /\ ebody' = Exc("ExecuteError")
                            /\ epc' = "exit"
                            /\ UNCHANGED eresults
  /\ UNCHANGED <<equery, econn, ecursor, eout>>
  /\ UNCHANGED <<dvars, gvars, rvars>>

\* executor.fetch_results() in the body: ValueError before any query
EqFetchResults ==
  /\ epc = "body"
  /\ eresults = "None"
  /\ ebody' = Exc("ValueError")
  /\ epc' = "exit"
  /\ UNCHANGED <<equery, econn, ecursor, eresults, elog, eout>>
  /\ UNCHANGED <<dvars, gvars, rvars>>

\* the body of the with statement ends, normally or by an exception
EqBodyEnd ==
  /\ epc = "body"
  /\ \E o \in {PyNone} \cup {Exc(e) : e \in FuncExcs} : ebody' = o
  /\ epc' = "exit"
  /\ UNCHANGED <<equery, econn, ecursor, eresults, elog, eout>>
  /\ UNCHANGED <<dvars, gvars, rvars>>

\* the calls __exit__ makes, in order, until one raises
ExitLog(cursorSet, connSet, raised, txOk, curCloseOk, connCloseOk) ==
  LET tx == IF cursorSet
              THEN <<Ev(IF raised THEN "rollback" ELSE "commit", txOk)>>
              ELSE <<>>
      cc == IF cursorSet /\ txOk
              THEN <<Ev("cursor_close", curCloseOk)>> ELSE <<>>
      reached == ~cursorSet \/ (txOk /\ curCloseOk)
      dc == IF connSet /\ reached
              THEN <<Ev("close", connCloseOk)>> ELSE <<>>
  IN tx \o cc \o dc

\* __exit__(exc_type, exc_val, exc_tb): commit or rollback, cursor.close(),
\* conn.close(), return False.  An exception raised by one of these calls
\* leaves __exit__ at once and replaces the exception of the body.
EqExit ==
  /\ epc = "exit"
  /\ \E txOk, curCloseOk, connCloseOk \in BOOLEAN :
       LET l == ExitLog(ecursor # "none", econn # "none",
                        ebody.kind = "exc", txOk, curCloseOk, connCloseOk)
           bad == {i \in DOMAIN l : ~l[i].ok}
       IN /\ elog' = elog \o l
          /\ ecursor' = IF \E i \in DOMAIN l :
                             l[i].op = "cursor_close" /\ l[i].ok
                          THEN "closed" ELSE ecursor
          /\ econn' = IF \E i \in DOMAIN l : l[i].op = "close" /\ l[i].ok
                        THEN "closed" ELSE econn
          /\ eout' = IF bad = {} THEN ebody
                     ELSE LET f == l[CHOOSE i \in bad : TRUE].op IN
                          Exc(CASE f = "commit" -> "CommitError"
                                [] f = "rollback" -> "RollbackError"
                                [] f = "cursor_close" -> "CursorCloseError"
                                [] OTHER -> "CloseError")
  /\ epc' = "left"
  /\ UNCHANGED <<equery, eresults, ebody>>
  /\ UNCHANGED <<dvars, gvars, rvars>>

Next ==
  \/ Invoke
  \/ WdcConnect
  \/ WdcFinally
  \/ TxCall
  \/ TxCommit
  \/ TxRollback
  \/ RetryAttempt
  \/ RetryReturn
  \/ RetryExcept
  \/ CacheLookup
  \/ CacheStore
  \/ CacheRaise
  \/ FuncRun
  \/ FetchConcurrently
  \/ \E b \in Branches : AsyncConnect(b)
  \/ \E b \in Branches : AsyncExecute(b)
  \/ \E b \in Branches : AsyncFetchall(b)
  \/ \E b \in Branches : AsyncCursorExit(b)
  \/ \E b \in Branches : AsyncDbExit(b)
  \/ \E b \in Branches : GatherDoneCallback(b)
  \/ MainResume
  \/ \E b \in Branches : RunnerCancel(b)
  \/ \E b \in Branches : CancelCursorExit(b)
  \/ \E b \in Branches : CancelDbExit(b)
  \/ RaceSpawn
  \/ \E t \in Threads : RaceConnect(t)
  \/ \E t \in Threads : RaceLookup(t)
  \/ \E t \in Threads : RaceExecute(t)
  \/ \E t \in Threads : RaceStore(t)
  \/ \E t \in Threads : RaceClose(t)
  \/ EqEnter
  \/ EqExecute
  \/ EqFetchResults
  \/ EqBodyEnd
  \/ EqExit

Spec == Init /\ [][Next]_vars

\* the event loop runs every task that can continue: the coroutine of a
\* branch is not left suspended forever
FairSpec == Spec /\ \A b \in Branches : WF_vars(AsyncStep(b))

\* ================================================================ claims
Last(s) == s[Len(s)]
CallDone == fn \in DecoratedFns /\ cur = 0 /\ ncalls >= 1
TxReturned == fn = "update_user_email" /\ cur = 1 /\ pc[2] = "done"
RetryReturned == fn = "fetch_users_with_retry" /\ cur = 1 /\ pc[2] = "done"
CacheReturned == fn = "fetch_users_with_cache" /\ pc[2] = "done"
CacheDone == fn = "fetch_users_with_cache" /\ cur = 0 /\ ncalls >= 1
CommitFailed == Count(log, "commit") - CountOk(log, "commit")
CloseFailed == Count(log, "close") - CountOk(log, "close")

\* C1: in every call of a with_db_connection wrapper in which the connection
\* was opened, close is invoked at most once while the call runs and exactly
\* once by the time control is back with the caller, whether the wrapped
\* operation returned or raised.
Thm_C1 ==
  (fn \in DecoratedFns /\ CountOk(log, "connect") = 1) =>
     /\ Count(log, "close") <= 1
     /\ cur = 0 => Count(log, "close") = 1

Wit_C1 ==
  /\ fn = "update_user_email" /\ cur = 0
  /\ CountOk(log, "connect") = 1
  /\ out[2].kind = "exc"
  /\ Count(log, "close") = 1

\* C2 (as claimed): whenever the operation wrapped by transactional raises,
\* rollback is invoked, commit is not, and the exception leaving the wrapper
\* is the operation's exception.
Orig_C2 ==
  (TxReturned /\ out[3].kind = "exc") =>
     /\ Count(log, "rollback") = 1
     /\ Count(log, "commit") = 0
     /\ out[2] = out[3]

\* C3 (as claimed): exactly one of commit and rollback is invoked per
\* invocation, commit exactly when the operation returned (whose result is
\* then returned), rollback exactly when it raised, also when commit fails.
Orig_C3 ==
  TxReturned =>
     /\ Count(log, "commit") + Count(log, "rollback") = 1
     /\ Count(log, "commit") = 1 <=> out[3].kind = "value"
     /\ Count(log, "rollback") = 1 <=> out[3].kind = "exc"
     /\ out[3].kind = "value" => out[2] = out[3]

\* C3 (amended): commit is invoked exactly when the operation returned
\* normally, rollback exactly when the operation raised or the commit call
\* raised; so exactly one of the two is invoked unless commit fails, and then
\* both are, commit first.  With a successful commit the operation's result
\* is returned; with a failed commit an exception leaves the wrapper.
Thm_C3 ==
  /\ fn = "update_user_email" =>
       Count(log, "commit") <= 1 /\ Count(log, "rollback") <= 1
  /\ TxReturned =>
       /\ Count(log, "commit") = 1 <=> out[3].kind = "value"
       /\ Count(log, "rollback") = 1 <=>
            (out[3].kind = "exc" \/ CommitFailed = 1)
       /\ CommitFailed = 0 =>
            Count(log, "commit") + Count(log, "rollback") = 1
       /\ (out[3].kind = "value" /\ CommitFailed = 0) => out[2] = out[3]
       /\ CommitFailed = 1 =>
            /\ out[2].kind = "exc"
            /\ \E i, j \in DOMAIN log :
                 i < j /\ log[i].op = "commit" /\ log[j].op = "rollback"

Wit_C3 ==
  /\ TxReturned
  /\ out[3].kind = "value"
  /\ CommitFailed = 1
  /\ Count(log, "rollback") = 1
  /\ out[2] = Exc("CommitError")

\* C4: with retries = N >= 1, when every attempt fails the operation is
\* invoked exactly N times and the wrapper raises the exception of the N-th
\* attempt.
Thm_C4 ==
  (/\ RetryReturned
   /\ retries >= 1
   /\ \A i \in DOMAIN funcOuts : funcOuts[i].kind = "exc") =>
     /\ Len(funcOuts) = retries
     /\ Count(log, "func") = retries
     /\ out[2].kind = "exc"
     /\ out[2] = funcOuts[retries]

Wit_C4 ==
  /\ RetryReturned
  /\ retries = 3
  /\ Len(funcOuts) = 3
  /\ funcOuts[1] = Exc("E1") /\ funcOuts[2] = Exc("E1")
  /\ funcOuts[3] = Exc("E2")
  /\ out[2] = Exc("E2")

\* C5: with retries = N >= 1, no attempt follows a successful one, at most
\* N attempts are made, the wrapper gives up only after N failures, and when
\* the (k+1)-th attempt succeeds after k < N failures the wrapper returns
\* that attempt's value.
Thm_C5 ==
  (fn = "fetch_users_with_retry" /\ retries >= 1) =>
     /\ \A i \in 1..(Len(funcOuts) - 1) : funcOuts[i].kind = "exc"
     /\ Len(funcOuts) <= retries
     /\ RetryReturned =>
          /\ Len(funcOuts) >= 1
          /\ Last(funcOuts).kind = "value" => out[2] = Last(funcOuts)
          /\ Last(funcOuts).kind = "exc" => Len(funcOuts) = retries

Wit_C5 ==
  /\ RetryReturned
  /\ retries = 3
  /\ Len(funcOuts) = 3
  /\ funcOuts[1].kind = "exc" /\ funcOuts[2].kind = "exc"
  /\ funcOuts[3] = Value("rowsA")
  /\ out[2] = Value("rowsA")
  /\ Count(log, "sleep") = 2

\* C6 (as claimed): two successive cached calls with the same query text
\* run the wrapped query at most once in total and the second outcome equals
\* the first, whatever the first outcome was.
Orig_C6 ==
  (CacheDone /\ ncalls >= 2 /\ prev.query = call.query) =>
     /\ prev.nexec + Count(log, "func") <= 1
     /\ ret = prev.out

\* C6 (amended): for two successive cached calls with the same query text
\* of which the first returned a result, the wrapped query runs at most once
\* in total, and the second call, if it returns a result, returns the first's.
Thm_C6 ==
  (/\ CacheDone /\ ncalls >= 2 /\ prev.query = call.query
   /\ prev.out.kind = "value") =>
     /\ prev.nexec + Count(log, "func") <= 1
     /\ ret.kind = "value" => ret = prev.out

Wit_C6 ==
  /\ CacheDone /\ ncalls >= 2 /\ prev.query = call.query
  /\ prev.out.kind = "value" /\ prev.nexec = 1
  /\ Count(log, "func") = 0
  /\ ret = prev.out

\* C7 (as claimed): on a cache hit no connection is opened, used or closed
\* for the call.
Orig_C7 ==
  (fn = "fetch_users_with_cache" /\ Count(log, "hit") >= 1) =>
     /\ Count(log, "connect") = 0
     /\ Count(log, "close") = 0
     /\ Count(log, "func") = 0

\* C7 (amended): on a cache hit the cache wrapper returns the stored result
\* without running the wrapped query; the connection is nevertheless opened
\* before the lookup and closed once after it by with_db_connection.
Thm_C7 ==
  (fn = "fetch_users_with_cache" /\ Count(log, "hit") >= 1) =>
     /\ Count(log, "func") = 0
     /\ out[2] = Value(first[call.query])
     /\ CountOk(log, "connect") = 1
     /\ log[1].op = "connect"
     /\ cur = 0 => Count(log, "close") = 1 /\ Last(log).op = "close"

Wit_C7 ==
  /\ CacheDone
  /\ Count(log, "hit") = 1
  /\ Count(log, "func") = 0
  /\ CountOk(log, "connect") = 1 /\ CountOk(log, "close") = 1
  /\ ret = Value(first[call.query])

\* C8 (as claimed): once the query has run successfully for a text, every
\* later cached call for that text completes with the stored result.
Orig_C8 ==
  (CacheDone /\ call.warm) => ret = Value(first[call.query])

\* C8 (amended): once the query has run successfully for a text, a later
\* cached call for that text never runs the query again, so it cannot fail
\* with an execution error: the cache wrapper returns the stored result, and
\* the call as a whole returns it unless opening the connection raises
\* (before the lookup) or closing it raises (after), in which case that
\* error reaches the caller.
Thm_C8 ==
  (fn = "fetch_users_with_cache" /\ ncalls >= 1 /\ call.warm) =>
     /\ Count(log, "func") = 0
     /\ CacheReturned => out[2] = Value(first[call.query])
     /\ cur = 0 =>
          \/ /\ ret = Value(first[call.query])
             /\ CountOk(log, "connect") = 1 /\ CloseFailed = 0
          \/ ret = Exc("ConnectError") /\ CountOk(log, "connect") = 0
          \/ ret = Exc("CloseError") /\ CloseFailed = 1

Wit_C8 ==
  /\ CacheDone /\ call.warm /\ ncalls = 3
  /\ prev.query # call.query
  /\ ret = Value(first[call.query])

\* C9: the cache key is the query text alone: once a text has been cached,
\* a call of the cache wrapper with the same text and other additional
\* arguments is a hit, returns the result stored by the first call and does
\* not run the query.
Thm_C9 ==
  (/\ fn = "fetch_users_with_cache" /\ ncalls >= 1 /\ call.warm
   /\ call.args # firstArgs[call.query]) =>
     /\ Count(log, "func") = 0
     /\ CacheReturned =>
          Count(log, "hit") = 1 /\ out[2] = Value(first[call.query])

Wit_C9 ==
  /\ CacheReturned /\ cur = 1 /\ call.warm
  /\ call.args # firstArgs[call.query]
  /\ prev.query = call.query /\ prev.args # call.args /\ prev.nexec = 1
  /\ Count(log, "hit") = 1
  /\ out[2] = prev.out

\* C10: when both branches succeed, fetch_concurrently returns the pair
\* (rows fetched by async_fetch_users, rows fetched by
\* async_fetch_older_users), whichever branch finished first, and main
\* unpacks it in that order.
Thm_C10 ==
  (/\ fn = "fetch_concurrently"
   /\ \A b \in Branches : gtask[b].kind = "value"
   /\ outer.kind # "pending") =>
     /\ outer = Result(<<gfetched[1], gfetched[2]>>)
     /\ mainpc = "done" =>
          main.all_users = gfetched[1] /\ main.older_users = gfetched[2]

Wit_C10 ==
  /\ fn = "fetch_concurrently"
  /\ mainpc = "done"
  /\ gorder = <<2, 1>>
  /\ gfetched[1] = "rowsA" /\ gfetched[2] = "rowsB"
  /\ main.all_users = "rowsA" /\ main.older_users = "rowsB"

\* C13 (as claimed): when close raises, the caller of the with_db_connection
\* wrapper still observes the outcome of the wrapped operation.
Orig_C13 ==
  (CallDone /\ CloseFailed = 1) => ret = out[2]

\* C14: when opening the connection fails, the connection error reaches the
\* caller at once: the wrapped operation is not run and no close, commit or
\* rollback is attempted.
Thm_C14 ==
  (/\ fn \in DecoratedFns
   /\ Count(log, "connect") = 1 /\ CountOk(log, "connect") = 0) =>
     /\ cur = 0
     /\ ret = Exc("ConnectError")
     /\ Len(log) = 1
     /\ funcOuts = <<>>
     /\ conn = "none"

Wit_C14 ==
  /\ fn = "update_user_email" /\ cur = 0 /\ ncalls = 1
  /\ log = <<Ev("connect", FALSE)>>
  /\ ret = Exc("ConnectError")

\* C15: in each decorated function nothing is run on the connection after
\* it has been closed: no run of the wrapped function, commit or rollback
\* follows the close call, and control is back with the caller once the
\* connection is closed.
Thm_C15 ==
  fn \in DecoratedFns =>
     /\ \A i, j \in DOMAIN log :
          (i < j /\ log[i].op = "close") =>
             log[j].op \notin {"func", "commit", "rollback", "hit", "sleep"}
     /\ conn = "closed" => cur = 0

Wit_C15 ==
  /\ fn = "update_user_email" /\ cur = 0
  /\ log = <<Ev("connect", TRUE), Ev("func", TRUE), Ev("commit", TRUE),
             Ev("close", TRUE)>>
  /\ conn = "closed"

\* C17 (as claimed): when an attempt starts after a failed one, nothing the
\* failed attempts changed is still pending on the connection.
Orig_C17 ==
  (fn \in RetryFns /\ At("func", "start") /\ Len(funcOuts) >= 1) =>
     pending = {}

\* C17 (amended): retry_on_failure does nothing to the connection between
\* attempts: no step of the retry wrapper changes the connection or the
\* changes pending on it, so what a failed attempt left uncommitted is still
\* pending when the next attempt runs.  Attempts are independent only when
\* the operation leaves nothing behind, as the SELECT of
\* fetch_users_with_retry does.
Thm_C17 ==
  /\ [][(fn \in RetryFns /\ cur \in Layers /\ prog[cur] = "retry_on_failure")
          => (pending' = pending /\ conn' = conn)]_vars
  /\ [](fn = "fetch_users_with_retry" => pending = {})

Wit_C17 ==
  /\ fn = "retried_operation"
  /\ At("func", "start")
  /\ Len(funcOuts) = 2
  /\ funcOuts[1].kind = "exc" /\ funcOuts[2].kind = "exc"
  /\ pending = {1, 2}

\* C19: with retries >= 1 the wrapper sleeps once after each failing attempt
\* that is not the last allowed one and at no other time: attempts and sleeps
\* alternate, every sleep follows a failed attempt and is followed by the
\* next attempt, and a call of m attempts has slept m - 1 times on return.
IsAttemptOrSleep(e) == e.op \in {"func", "sleep"}
RetryDone == fn \in RetryFns /\ cur <= 1 /\ pc[2] = "done"

Thm_C19 ==
  (fn \in RetryFns /\ retries >= 1) =>
     LET fs == SelectSeq(log, IsAttemptOrSleep) IN
       /\ \A i \in DOMAIN fs :
            /\ fs[i].op = IF i % 2 = 1 THEN "func" ELSE "sleep"
            /\ fs[i].op = "sleep" => ~fs[i - 1].ok /\ i < 2 * retries
       /\ RetryDone =>
            /\ Len(fs) >= 1
            /\ fs[Len(fs)].op = "func"
            /\ Count(log, "sleep") = Count(log, "func") - 1

Wit_C19 ==
  /\ fn = "fetch_users_with_retry" /\ RetryDone /\ retries = 3
  /\ Count(log, "func") = 2
  /\ Count(log, "sleep") = 1
  /\ out[2].kind = "value"

\* C20: on a miss whose query fails the cache wrapper raises that error
\* and stores nothing, so the cache is as before the call; the next call
\* with the same text that gets as far as the lookup misses and runs the
\* query again.
Thm_C20 ==
  fn = "fetch_users_with_cache" =>
     /\ (CacheReturned /\ Len(funcOuts) = 1 /\ funcOuts[1].kind = "exc") =>
          /\ out[2] = funcOuts[1]
          /\ CacheKey(call.query, call.args) \notin DOMAIN query_cache
          /\ DOMAIN query_cache = DOMAIN first
          /\ \A k \in DOMAIN query_cache : query_cache[k] = first[k]
     /\ (/\ CacheReturned /\ ncalls >= 2 /\ prev.query = call.query
         /\ prev.nexec = 1 /\ prev.out.kind = "exc"
         /\ prev.out.val \in FuncExcs) =>
          Count(log, "func") = 1 /\ Count(log, "hit") = 0

Wit_C20 ==
  /\ CacheReturned /\ cur = 1 /\ ncalls = 2
  /\ prev.query = call.query /\ prev.nexec = 1
  /\ prev.out = Exc("E1")
  /\ Count(log, "func") = 1
  /\ out[2] = Value("rowsA")

\* C11 (as claimed): whenever control is back with the caller of
\* fetch_concurrently, by return or by exception, both branches have
\* completed.
Orig_C11 ==
  (fn = "fetch_concurrently" /\ mainpc \in {"done", "raised"}) =>
     \A b \in Branches : gpc[b] = "finished"

\* C11 (amended): fetch_concurrently returns a result to its caller only
\* after both branches have completed, each having fetched its rows and
\* closed its own connection.  When a branch fails, its exception reaches
\* the caller as soon as gather handles that failure, possibly while the
\* other branch is still running.
Thm_C11 ==
  (fn = "fetch_concurrently" /\ (outer.kind = "result" \/ mainpc = "done")) =>
     \A b \in Branches :
        /\ gpc[b] = "finished"
        /\ gcb[b]
        /\ gtask[b] = Value(gfetched[b])
        /\ gconn[b] = "closed"

Wit_C11 ==
  /\ fn = "fetch_concurrently"
  /\ mainpc = "done"
  /\ gorder = <<1, 2>>
  /\ \A b \in Branches : gpc[b] = "finished" /\ gconn[b] = "closed"

\* C12: when a branch fails, the caller of fetch_concurrently gets the
\* exception of a failed branch and never a pair or part of one, and gather
\* cancels nothing: a branch that is still running when the failure is
\* propagated can take its next step, and no branch is cancelled before main
\* has ended (only asyncio.run cancels, when it shuts the loop down).
Thm_C12 ==
  fn = "fetch_concurrently" =>
     /\ (\E b \in Branches : gcb[b] /\ gtask[b].kind = "exc") =>
          /\ outer.kind = "exc"
          /\ \E b \in Branches : gcb[b] /\ gtask[b] = Exc(outer.exc)
          /\ mainpc # "done"
     /\ outer.kind = "exc" => outer.results = <<>>
     /\ mainpc = "raised" =>
          /\ main.exc = outer.exc
          /\ main.all_users = "-" /\ main.older_users = "-"
     /\ \A b \in Branches :
          /\ gpc[b] = "cancelled" => mainpc = "raised"
          /\ (outer.kind = "exc" /\
                  gpc[b] \notin {"new", "finished", "cancelled"}) =>
               ENABLED AsyncStep(b)

Wit_C12 ==
  /\ fn = "fetch_concurrently"
  /\ mainpc = "raised"
  /\ gtask[1] = Exc("ExecuteError")
  /\ main.exc = "ExecuteError"
  /\ gpc[2] = "fetchall"
  /\ gconn[2] = "open"

\* ---------------------------------------------------------------- C16
\* C16: when two callers race the same uncached query text through
\* cache_query.wrapper, both may run the query and both may write the
\* cache; in every interleaving the wrapper hands each caller either the
\* complete result of that caller's own execution or a result some caller
\* stored, the cache entry for the text is always the value of the latest
\* write (never a value nobody wrote), and once a caller has written, the
\* entry is never missing.
Thm_C16 ==
  fn = "cache_race" =>
     /\ \A t \in Threads :
          rinner[t].kind = "value" =>
             \/ rexec[t].kind = "value" /\ rinner[t] = rexec[t]
             \/ /\ rexec[t] = NoneOut
                /\ \E i \in DOMAIN rwrites :
                     rwrites[i].t # t /\ rwrites[i].val = rinner[t].val
     /\ \A t \in Threads :
          (rpc[t] = "done" /\ rout[t].kind = "value") => rout[t] = rinner[t]
     /\ IF rwrites = <<>>
          THEN query_cache = <<>>
          ELSE /\ RaceKey \in DOMAIN query_cache
               /\ query_cache[RaceKey] = Last(rwrites).val
               /\ \E t \in Threads :
                    Last(rwrites).t = t /\ rexec[t] = Value(Last(rwrites).val)

\* both callers missed, both ran the query with different rows, both wrote;
\* the later write is the entry and each caller got its own rows
Wit_C16 ==
  /\ fn = "cache_race"
  /\ \A t \in Threads : rpc[t] = "done"
  /\ Len(rwrites) = 2
  /\ rwrites[1] = [t |-> 2, val |-> "rowsB"]
  /\ rwrites[2] = [t |-> 1, val |-> "rowsA"]
  /\ query_cache[RaceKey] = "rowsA"
  /\ rout[1] = Value("rowsA")
  /\ rout[2] = Value("rowsB")

\* ---------------------------------------------------------------- C18
\* C18: whenever __enter__ of ExecuteQuery succeeded, leaving the with
\* statement invokes commit exactly when the body raised nothing and
\* rollback exactly when it raised, then closes the cursor and the
\* connection, and an exception of the body reaches the caller.
Orig_C18 ==
  (fn = "ExecuteQuery" /\ epc = "left" /\ ebody # NoneOut) =>
     /\ Count(elog, "commit") = (IF ebody.kind = "value" THEN 1 ELSE 0)
     /\ Count(elog, "rollback") = (IF ebody.kind = "exc" THEN 1 ELSE 0)
     /\ ecursor = "closed"
     /\ econn = "closed"
     /\ ebody.kind = "exc" => eout = ebody

\* ---------------------------------------------------------------- C21
\* C21: query_cache is empty before the first call and only grows under
\* single-threaded calls of fetch_users_with_cache: no step removes a query
\* text or replaces its stored result, and between calls the cache holds
\* exactly the query texts whose execution has succeeded at least once,
\* each with the result of that execution.
Thm_C21 ==
  /\ [][fn = "fetch_users_with_cache" =>
          \A k \in DOMAIN query_cache :
             k \in DOMAIN query_cache' /\ query_cache'[k] = query_cache[k]]_vars
  /\ []((fn = "fetch_users_with_cache" /\ ncalls = 0) => query_cache = <<>>)
  /\ []((fn = "fetch_users_with_cache" /\ cur = 0) =>
          /\ DOMAIN query_cache = DOMAIN first
          /\ \A k \in DOMAIN first : query_cache[k] = first[k])

\* two texts were cached with different rows by two calls and a third call
\* was answered from the cache
Wit_C21 ==
  /\ fn = "fetch_users_with_cache"
  /\ cur = 0
  /\ ncalls = 3
  /\ call.warm
  /\ ret.kind = "value"
  /\ DOMAIN query_cache = Queries
  /\ query_cache[call.query] = ret.val
  /\ \E q \in Queries : query_cache[q] # ret.val

\* ---------------------------------------------------------------- C22
\* C22: one call of fetch_users_with_retry opens exactly one connection and
\* closes it exactly once however many attempts are made; every attempt
\* runs on that connection, opened before it and not yet closed; a failure
\* to open the connection is not retried: the operation is not invoked and
\* the connection error reaches the caller.
Thm_C22 ==
  (fn = "fetch_users_with_retry" /\ (log # <<>> \/ CallDone)) =>
     /\ Count(log, "connect") = 1
     /\ Count(log, "close") <= 1
     /\ log[1].op = "connect"
     /\ \A i \in DOMAIN log :
          log[i].op = "func" =>
             /\ log[1].ok
             /\ \A j \in 1..i : log[j].op # "close"
     /\ (cur = 0 /\ log[1].ok) =>
          /\ Count(log, "close") = 1
          /\ Last(log).op = "close"
          /\ Count(log, "func") <= retries
     /\ (cur = 0 /\ ~log[1].ok) =>
          /\ log = <<Ev("connect", FALSE)>>
          /\ funcOuts = <<>>
          /\ ret = Exc("ConnectError")

\* three failing attempts on one connection, closed once at the end
Wit_C22 ==
  /\ fn = "fetch_users_with_retry" /\ cur = 0 /\ retries = 3
  /\ Count(log, "func") = 3 /\ CountOk(log, "func") = 0
  /\ Count(log, "connect") = 1
  /\ Count(log, "close") = 1
  /\ Last(log) = Ev("close", TRUE)
  /\ ret = Last(funcOuts)

\* ---------------------------------------------------------------- C23
RtxReturned == fn = "retried_transaction" /\ cur <= 1 /\ pc[2] = "done"
AllFailed == \A i \in DOMAIN funcOuts : funcOuts[i].kind = "exc"
Settles(e) == e.op \in {"commit", "rollback"}

\* C23 (as claimed): with retry_on_failure inside transactional inside
\* with_db_connection and N >= 1 attempts allowed, a call ends with exactly
\* one transaction outcome: one commit and no rollback if some attempt
\* succeeded, one rollback and no commit if all N attempts failed, nothing
\* between attempts, and the close call after the commit or rollback.
Orig_C23 ==
  (RtxReturned /\ retries >= 1) =>
     /\ ~AllFailed => Count(log, "commit") = 1 /\ Count(log, "rollback") = 0
     /\ AllFailed =>
          /\ Len(funcOuts) = retries
          /\ Count(log, "rollback") = 1 /\ Count(log, "commit") = 0
     /\ \A i, j \in DOMAIN log :
          (i < j /\ Settles(log[i])) => log[j].op \notin {"func", "sleep"}
     /\ cur = 0 => Last(log).op = "close"

\* C23 (amended): in that composition no commit or rollback happens between
\* attempts, and after the retry wrapper has returned: commit is invoked once
\* exactly when the retry wrapper returned a value - some attempt succeeded,
\* or retries = 0 and no attempt was made; rollback is invoked once exactly
\* when all N >= 1 attempts failed or the commit call raised, in which case
\* both are invoked, commit first.  The close call follows the commit or
\* rollback and is the last call on the connection.
Thm_C23 ==
  fn = "retried_transaction" =>
     /\ Count(log, "commit") <= 1 /\ Count(log, "rollback") <= 1
     /\ \A i, j \in DOMAIN log :
          (i < j /\ Settles(log[i])) => log[j].op \notin {"func", "sleep"}
     /\ RtxReturned =>
          /\ Count(log, "commit") = 1 <=> (retries = 0 \/ ~AllFailed)
          /\ Count(log, "rollback") = 1 <=>
               ((retries >= 1 /\ AllFailed) \/ CommitFailed = 1)
          /\ (retries >= 1 /\ AllFailed) => Len(funcOuts) = retries
          /\ retries = 0 => funcOuts = <<>>
          /\ CommitFailed = 1 =>
               \E i \in DOMAIN log :
                  log[i].op = "commit" /\ log[i + 1].op = "rollback"
          /\ cur = 0 =>
               /\ Last(log).op = "close"
               /\ Count(log, "close") = 1
               /\ Settles(log[Len(log) - 1])

\* the third attempt succeeded, the commit raised and was followed by a
\* rollback, then the connection was closed
Wit_C23 ==
  /\ fn = "retried_transaction" /\ cur = 0 /\ retries = 3
  /\ Len(funcOuts) = 3
  /\ funcOuts[1].kind = "exc" /\ funcOuts[2].kind = "exc"
  /\ funcOuts[3].kind = "value"
  /\ CommitFailed = 1
  /\ Count(log, "rollback") = 1
  /\ Last(log) = Ev("close", TRUE)

\* ---------------------------------------------------------------- C24
\* C24 (as claimed): every call of a function wrapped by retry_on_failure
\* ends by returning a value produced by an invocation of the operation or
\* by raising the operation's last exception, for every retries value,
\* retries = 0 included: the operation is never skipped with a None result.
Orig_C24 ==
  RetryDone =>
     /\ funcOuts # <<>>
     /\ out[2] = Last(funcOuts)

\* ---------------------------------------------------------------- C25
\* C25 (as claimed): every connection opened by ExecuteQuery.__enter__ has
\* had its close call by the time control leaves the with statement, on
\* every path: the initial query failing inside __enter__, the body
\* failing, nothing failing.
Orig_C25 ==
  (fn = "ExecuteQuery" /\ epc = "left" /\ CountOk(elog, "connect") = 1) =>
     Count(elog, "close") = 1

\* ---------------------------------------------------------------- C26
Done(b) == gpc[b] \in {"finished", "cancelled"}
\* a connection opened for a branch that was cancelled before binding it
Unbound(i) == gdb[gconns[i].opener] # i

====
